---- MODULE Spec2Model ----
(***************************************************************************)
(* A model of the vision-vm frame-streaming engine:                        *)
(*   streaming_server.py  command_server, _get_capture_monitor,            *)
(*                        capture_png, handle_client, serve                *)
(*   control_api.py       update_region, monitor_playback (the two other   *)
(*                        places that assign capture_region fields)        *)
(* Threads: serve (accept loop), command_server, one handle_client per     *)
(* accepted connection, and the control API's event loop.                  *)
(***************************************************************************)
EXTENDS Integers, Sequences, FiniteSets, TLC

(***************************************************************************)
(* Bounds of the model.                                                    *)
(***************************************************************************)
\* loop iterations of one session the model follows while its client listens
MaxTicks == 2
\* the same for the specification of the rectangle's refresh, which has to see
\* more than REFRESH_EVERY iterations
LongRun == 11

\* the connections the stream server accepts in one run, in accept order
Sessions == {1, 2}

(***************************************************************************)
(* Program constants.                                                      *)
(***************************************************************************)
\* struct.calcsize("!Qd")
HEADER_SIZE == 16
\* "if f_count % 10 == 0" in handle_client
REFRESH_EVERY == 10
\* deque(maxlen=30)
TS_MAXLEN == 30
\* interval = 1.0 / TARGET_FPS; the unit of time is a third of it
INTERVAL == 3
\* sock.recv(min(remaining, 65536))
RECV_MAX == 65536

(***************************************************************************)
(* JSON / Python values.  One record shape for every value so that any two *)
(* values can be compared: t is the type, n the number, s the string.      *)
(***************************************************************************)
J(t, n, s) == [t |-> t, n |-> n, s |-> s]
Num(n)  == J("num", n, "")
Str(s)  == J("str", 0, s)
Bool(b) == J("bool", IF b THEN 1 ELSE 0, "")
NaN     == J("nan", 0, "")
PosInf  == J("inf", 1, "")
NegInf  == J("inf", -1, "")
Missing == J("missing", 0, "")

IsFinite(x) == x.t = "num"

\* int(x): numbers are kept (the protocol's numbers are integers), booleans are
\* 0/1; NaN, Infinity, a string that is no numeral (the strings of the model
\* are none) and a missing key raise.
PyInt(x) ==
    CASE x.t = "num"  -> [ok |-> TRUE, v |-> x.n]
      [] x.t = "bool" -> [ok |-> TRUE, v |-> x.n]
      [] OTHER        -> [ok |-> FALSE, v |-> 0]

\* float(x): numbers, NaN and the infinities are floats already; booleans are
\* 0.0/1.0; other strings raise.
PyFloat(x) ==
    CASE x.t \in {"num", "nan", "inf"} -> [ok |-> TRUE, v |-> x]
      [] x.t = "bool"                  -> [ok |-> TRUE, v |-> Num(x.n)]
      [] OTHER                         -> [ok |-> FALSE, v |-> Num(0)]

\* bool(x): truthiness.
PyBool(x) ==
    CASE x.t = "num"     -> x.n # 0
      [] x.t = "bool"    -> x.n # 0
      [] x.t = "str"     -> x.s # ""
      [] x.t = "missing" -> FALSE
      [] OTHER           -> TRUE

\* msg.get(key, default)
Get(msg, key, default) == IF msg[key] = Missing THEN default ELSE msg[key]

(***************************************************************************)
(* Requests of the command channel: a mapping with every key of the        *)
(* protocol, Missing where the request does not carry it.                  *)
(***************************************************************************)
Keys == {"command", "top", "left", "width", "height",
         "duration", "current_time", "is_ended", "video_status"}

Msg(cmd) == [k \in Keys |-> IF k = "command" THEN Str(cmd) ELSE Missing]

RegionMsg(t, l, w, h) ==
    [Msg("region_update") EXCEPT !["top"] = Num(t), !["left"] = Num(l),
                                 !["width"] = Num(w), !["height"] = Num(h)]
DurationMsg(d) == [Msg("set_duration") EXCEPT !["duration"] = d]
TelemetryMsg(ct, ended, vs) ==
    [Msg("update_telemetry") EXCEPT !["current_time"] = ct,
                                    !["is_ended"] = ended,
                                    !["video_status"] = vs]

StatusMsgs == {Msg("status")}
ValidRegionMsgs == {RegionMsg(10, 20, 640, 480)}
MoreRegionMsgs == {RegionMsg(50, 60, 320, 240)}
InvalidRegionMsgs == {RegionMsg(10, 20, 0, 480), RegionMsg(30, 40, 320, -1)}
DurationMsgs == {DurationMsg(Num(9))}
TelemetryMsgs == {TelemetryMsg(Num(5), Bool(TRUE), Str("paused"))}

\* what conn.recv() can return that is no JSON object: nothing at all, and
\* bytes that json.loads() rejects
EmptyData == [k \in Keys |-> IF k = "command" THEN J("empty", 0, "") ELSE Missing]
Undecodable ==
    [k \in Keys |-> IF k = "command" THEN J("undecodable", 0, "") ELSE Missing]

\* update_telemetry requests that leave fields out, or carry a duration
PartialTelemetryMsgs ==
    {[Msg("update_telemetry") EXCEPT !["video_status"] = Str("complete")],
     TelemetryMsg(Num(7), Bool(FALSE), Missing)}
TelemetryDurationMsgs ==
    {[TelemetryMsg(Num(5), Bool(TRUE), Missing) EXCEPT !["duration"] = Num(9)]}
\* requests with a command the server does not know, or with none
UnknownMsgs == {Msg("reboot"), [k \in Keys |-> Missing]}
\* requests that do not decode, or lack a field, or carry one that does not
\* convert
MalformedMsgs ==
    {Undecodable,
     [RegionMsg(10, 20, 640, 480) EXCEPT !["width"] = Missing],
     [RegionMsg(10, 20, 640, 480) EXCEPT !["height"] = Str("tall")],
     DurationMsg(Str("long")),
     TelemetryMsg(Str("now"), Bool(TRUE), Str("paused"))}
\* requests with negative times
NegativeMsgs ==
    {DurationMsg(Num(-5)), TelemetryMsg(Num(-1), Bool(FALSE), Missing)}
\* update_telemetry requests whose video_status is not a playback status
OddStatusMsgs ==
    {TelemetryMsg(Num(5), Bool(FALSE), Str("buffering")),
     TelemetryMsg(Num(5), Bool(FALSE), Num(3))}
\* requests with numbers that are not finite (json.loads accepts NaN,
\* Infinity and -Infinity)
NonFiniteMsgs ==
    {DurationMsg(NaN), DurationMsg(PosInf),
     TelemetryMsg(NaN, Bool(FALSE), Missing),
     TelemetryMsg(NegInf, Bool(FALSE), Missing)}

\* the requests of the default specification
CoreMsgs == StatusMsgs \cup ValidRegionMsgs \cup InvalidRegionMsgs
            \cup TelemetryMsgs


(***************************************************************************)
(* State.                                                                  *)
(***************************************************************************)
VARIABLES
    serve_pc,        \* serve(): "probe", "start_cmd", "bind", "accept", "aborted"
    geometry,        \* serve()'s locals width and height, as probed
    capture_region,  \* the module-level dict capture_region
    region_lock,     \* _region_lock: "free" or the thread that holds it
    current_fps,     \* the module-level current_fps, a fraction num/den
    active_clients,  \* the module-level active_clients
    cmd_pc,          \* command_server(): the statement it is at
    new_region,      \* command_server()'s local new_region
    st_region,       \* command_server()'s local region (the status copy)
    st_stats,        \* command_server()'s locals fps and clients
    cur,             \* the request being handled: message, reply, store before it
    prev,            \* the request handled before cur, in short
    http_reply,      \* the control API's last answer to POST /sensor/region
    pc,              \* handle_client(): the statement each session is at
    f_count,         \* handle_client()'s local f_count
    monitor,         \* handle_client()'s local monitor
    png_data,        \* handle_client()'s local png_data
    v_time,          \* handle_client()'s local v_time
    ts_history,      \* handle_client()'s local ts_history
    captures,        \* how many frames each session has captured
    ticks,           \* how many iterations of its loop each session has begun
    mark,            \* ticks and f_count of each session at the last accepted
                     \* region_update
    peer,            \* the client end of each connection: "open" or "gone"
    wire,            \* the bytes each session has written to its socket
    pacing,          \* the time.sleep() that ended each session's last iteration:
                     \* the time since t0 when it was called, and its argument
    client           \* verify_stream.py at the other end of each session's
                     \* socket: its position in recv_frame() and what it got

cmd_vars  == <<cmd_pc, new_region, st_region, st_stats, cur, prev>>
sess_vars == <<pc, f_count, monitor, png_data, v_time, ts_history, captures,
              ticks, wire, pacing, client>>
vars == <<serve_pc, geometry, capture_region, region_lock, current_fps, active_clients,
          cmd_pc, new_region, st_region, st_stats, cur, prev, http_reply,
          pc, f_count, monitor, png_data, v_time, ts_history, captures,
          ticks, mark, peer, wire, pacing, client>>

\* a server that starts with the whole of a 1920x1080 display
DefaultRegionFullHD ==
    [top |-> 0, left |-> 0, width |-> 1920, height |-> 1080,
     current_time |-> Num(0), duration |-> Num(0), is_ended |-> FALSE,
     video_status |-> Str("playing")]

\* capture_region as the module sets it
DefaultRegion ==
    [top |-> 0, left |-> 0, width |-> 1280, height |-> 720,
     current_time |-> Num(0), duration |-> Num(0),
     is_ended |-> FALSE, video_status |-> Str("playing")]

Rect(r) == [top |-> r.top, left |-> r.left, width |-> r.width, height |-> r.height]
Telemetry(r) == [current_time |-> r.current_time, duration |-> r.duration,
                 is_ended |-> r.is_ended, video_status |-> r.video_status]

NoRect == [top |-> 0, left |-> 0, width |-> 0, height |-> 0]
NoStats == [fps |-> [num |-> 0, den |-> 1], clients |-> 0]

\* a reply of the command channel; status "none" is no reply at all
Reply(status, message, region, stats) ==
    [status |-> status, message |-> message, capture_region |-> region,
     fps |-> stats.fps, active_clients |-> stats.clients]
NoReply  == Reply("none", "", DefaultRegion, NoStats)
OkReply  == Reply("ok", "", DefaultRegion, NoStats)
ErrReply(m) == Reply("error", m, DefaultRegion, NoStats)

\* one request/response exchange of the command channel
Exchange(msg, reply, before, closed) ==
    [msg |-> msg, reply |-> reply, before |-> before, closed |-> closed]
NoExchange == Exchange(Msg(""), NoReply, DefaultRegion, TRUE)

\* what is kept of an exchange once the next request is accepted: the command,
\* the rectangle it asked for, the reply's status and message, the store before
Asked(msg) == [top |-> msg["top"].n, left |-> msg["left"].n,
               width |-> msg["width"].n, height |-> msg["height"].n]
Summary(x) ==
    [command |-> x.msg["command"], asked |-> Asked(x.msg),
     status |-> x.reply.status, message |-> x.reply.message, before |-> x.before]

\* no region_update has been accepted while the session was streaming
NoMark == [set |-> FALSE, ticks |-> 0, frames |-> 0]

\* recv_frame() about to read its first header: nothing taken from the
\* socket, no chunk joined, no frame returned
NoClient == [stage |-> "header", remaining |-> HEADER_SIZE, chunks |-> <<>>,
             header |-> <<>>, pos |-> 0, frames |-> <<>>]

\* no time.sleep() has ended an iteration
NoPacing == [slept |-> FALSE, elapsed |-> 0, sleep_time |-> 0]

\* time.sleep(sleep_time) called when elapsed had passed since t0
Slept(elapsed, sleep_time) ==
    [slept |-> TRUE, elapsed |-> elapsed, sleep_time |-> sleep_time]

\* the iteration ended without a call of time.sleep()
NotSlept(elapsed) == [slept |-> FALSE, elapsed |-> elapsed, sleep_time |-> 0]

\* serve() has not probed the display yet
NoGeometry == [width |-> 0, height |-> 0]

Init ==
    /\ serve_pc = "probe"
    /\ geometry = NoGeometry
    /\ capture_region = DefaultRegion
    /\ region_lock = "free"
    /\ current_fps = [num |-> 0, den |-> 1]
    /\ active_clients = 0
    /\ cmd_pc = "off"
    /\ new_region = NoRect
    /\ st_region = DefaultRegion
    /\ st_stats = NoStats
    /\ cur = NoExchange
    /\ prev = Summary(NoExchange)
    /\ http_reply = "none"
    /\ pc = [s \in Sessions |-> "idle"]
    /\ f_count = [s \in Sessions |-> 0]
    /\ monitor = [s \in Sessions |-> NoRect]
    /\ png_data = [s \in Sessions |-> <<>>]
    /\ v_time = [s \in Sessions |-> Num(0)]
    /\ ts_history = [s \in Sessions |-> <<>>]
    /\ captures = [s \in Sessions |-> 0]
    /\ ticks = [s \in Sessions |-> 0]
    /\ mark = [s \in Sessions |-> NoMark]
    /\ peer = [s \in Sessions |-> "open"]
    /\ wire = [s \in Sessions |-> <<>>]
    /\ pacing = [s \in Sessions |-> NoPacing]
    /\ client = [s \in Sessions |-> NoClient]


(***************************************************************************)
(* command_server(): one thread, one request per connection.               *)
(***************************************************************************)
Command(msg) == Get(msg, "command", Missing)

\* new_region = {"top": int(msg["top"]), ...}: ok is FALSE when a key is
\* missing or a value does not convert (KeyError, ValueError, TypeError)
ParseRegion(msg) ==
    LET t == PyInt(msg["top"])    l == PyInt(msg["left"])
        w == PyInt(msg["width"])  h == PyInt(msg["height"])
    IN  [ok |-> t.ok /\ l.ok /\ w.ok /\ h.ok,
         v  |-> [top |-> t.v, left |-> l.v, width |-> w.v, height |-> h.v]]

\* (mutant) the check lets a zero through
InvalidDimensionsStrict(r) == r.width < 0 \/ r.height < 0

\* if new_region["width"] <= 0 or new_region["height"] <= 0: reject
InvalidDimensions(r) == r.width <= 0 \/ r.height <= 0

Answer(reply) == [cur EXCEPT !.reply = reply, !.closed = TRUE]

\* srv.accept(), conn.recv(), json.loads() and the dispatch on cmd, up to the
\* first statement that touches shared state
CmdAccept(msg) ==
    /\ cmd_pc = "accept"
    /\ prev' = Summary(cur)
    /\ LET cmd == Command(msg)
           x   == Exchange(msg, NoReply, capture_region, FALSE)
           nr  == ParseRegion(msg)
       IN  CASE cmd.t = "empty" ->
                  \* if not data: conn.close(); continue
                  /\ cur' = [x EXCEPT !.closed = TRUE]
                  /\ cmd_pc' = "accept"
                  /\ UNCHANGED new_region
             [] cmd.t = "undecodable" ->
                  \* json.loads() raises; the loop's handler catches it: no
                  \* reply, and conn.close() is not reached
                  /\ cur' = x
                  /\ cmd_pc' = "accept"
                  /\ UNCHANGED new_region
             [] cmd = Str("status") ->
                  /\ cur' = x
                  /\ cmd_pc' = "st_region"
                  /\ UNCHANGED new_region
             [] cmd = Str("region_update") ->
                  IF ~nr.ok
                  THEN \* the exception is caught by the loop's handler: no reply,
                       \* and conn.close() is not reached
                       /\ cur' = x
                       /\ cmd_pc' = "accept"
                       /\ UNCHANGED new_region
                  ELSE IF InvalidDimensions(nr.v)
                  THEN /\ cur' = [x EXCEPT !.reply = ErrReply("invalid dimensions"),
                                           !.closed = TRUE]
                       /\ cmd_pc' = "accept"
                       /\ new_region' = nr.v
                  ELSE /\ cur' = x
                       /\ cmd_pc' = "ru_top"
                       /\ new_region' = nr.v
             [] cmd = Str("set_duration") ->
                  /\ cur' = x
                  /\ cmd_pc' = "sd_write"
                  /\ UNCHANGED new_region
             [] cmd = Str("update_telemetry") ->
                  /\ cur' = x
                  /\ cmd_pc' = "ut_write"
                  /\ UNCHANGED new_region
             [] OTHER ->
                  \* no branch matches: conn.close() without a reply
                  /\ cur' = [x EXCEPT !.closed = TRUE]
                  /\ cmd_pc' = "accept"
                  /\ UNCHANGED new_region
    /\ UNCHANGED <<serve_pc, geometry, capture_region, region_lock, current_fps,
                   active_clients, st_region, st_stats, http_reply,
                   sess_vars, mark, peer>>

\* status: with _region_lock: region = dict(capture_region)
CmdStatusRegion ==
    /\ cmd_pc = "st_region"
    /\ region_lock = "free"
    /\ st_region' = capture_region
    /\ cmd_pc' = "st_stats"
    /\ UNCHANGED <<serve_pc, geometry, capture_region, region_lock, current_fps,
                   active_clients, new_region, st_stats, cur, prev, http_reply,
                   sess_vars, mark, peer>>

\* status: with _stats_lock: fps = current_fps; clients = active_clients
CmdStatusStats ==
    /\ cmd_pc = "st_stats"
    /\ st_stats' = [fps |-> current_fps, clients |-> active_clients]
    /\ cmd_pc' = "st_reply"
    /\ UNCHANGED <<serve_pc, geometry, capture_region, region_lock, current_fps,
                   active_clients, new_region, st_region, cur, prev, http_reply,
                   sess_vars, mark, peer>>

\* status: conn.sendall(json.dumps(resp)); conn.close()
CmdStatusReply ==
    /\ cmd_pc = "st_reply"
    /\ cur' = Answer(Reply("ok", "", st_region, st_stats))
    /\ cmd_pc' = "accept"
    /\ UNCHANGED <<serve_pc, geometry, capture_region, region_lock, current_fps,
                   active_clients, new_region, st_region, st_stats, prev,
                   http_reply, sess_vars, mark, peer>>

\* region_update: the four assignments under _region_lock, one at a time
\* sessions in their loop
Streaming == {"top", "capture", "fail_sleep", "vtime", "send", "stats", "sleep"}

\* the ticks and frames of every session, noted when an update is complete
Marked == [s \in Sessions |->
             [set |-> pc[s] \in Streaming, ticks |-> ticks[s], frames |-> f_count[s]]]

\* (mutant) capture_region["top"] is assigned new_region["left"]
WriteFieldCrossed(field, next_pc, lock_before, lock_after) ==
    /\ region_lock = lock_before
    /\ capture_region' = [capture_region EXCEPT
           ![field] = new_region[IF field = "top" THEN "left" ELSE field]]
    /\ region_lock' = lock_after
    /\ cmd_pc' = next_pc
    /\ mark' = IF lock_after = "free" THEN Marked ELSE mark
    /\ UNCHANGED <<serve_pc, geometry, current_fps, active_clients, new_region, st_region,
                   st_stats, cur, prev, http_reply, sess_vars, peer>>

WriteField(field, next_pc, lock_before, lock_after) ==
    /\ region_lock = lock_before
    /\ capture_region' = [capture_region EXCEPT ![field] = new_region[field]]
    /\ region_lock' = lock_after
    /\ cmd_pc' = next_pc
    /\ mark' = IF lock_after = "free" THEN Marked ELSE mark
    /\ UNCHANGED <<serve_pc, geometry, current_fps, active_clients, new_region, st_region,
                   st_stats, cur, prev, http_reply, sess_vars, peer>>

\* (mutant) the reply is sent inside the with block
CmdRegionHeightHolding ==
    cmd_pc = "ru_height" /\ WriteField("height", "ru_reply", "cmd", "cmd")

CmdRegionTop    == cmd_pc = "ru_top"    /\ WriteField("top", "ru_left", "free", "cmd")
CmdRegionLeft   == cmd_pc = "ru_left"   /\ WriteField("left", "ru_width", "cmd", "cmd")
CmdRegionWidth  == cmd_pc = "ru_width"  /\ WriteField("width", "ru_height", "cmd", "cmd")
CmdRegionHeight == cmd_pc = "ru_height" /\ WriteField("height", "ru_reply", "cmd", "free")

\* conn.sendall({"status": "ok"}); conn.close(): region_update, set_duration
\* and update_telemetry end alike
CmdOkReply ==
    /\ cmd_pc \in {"ru_reply", "sd_reply", "ut_reply"}
    /\ cur' = Answer(OkReply)
    /\ cmd_pc' = "accept"
    /\ UNCHANGED <<serve_pc, geometry, capture_region, region_lock, current_fps,
                   active_clients, new_region, st_region, st_stats, prev,
                   http_reply, sess_vars, mark, peer>>

\* set_duration: capture_region["duration"] = float(msg.get("duration", 0.0))
SetDuration(region, msg) ==
    LET d == PyFloat(Get(msg, "duration", Num(0)))
    IN  [ok |-> d.ok, v |-> [region EXCEPT !.duration = d.v]]

\* (mutant) a request without video_status sets it back to "playing"
UpdateTelemetryResetting(region, msg) ==
    LET ct == PyFloat(Get(msg, "current_time", Num(0)))
    IN  [ok |-> ct.ok,
         v  |-> [region EXCEPT
                   !.current_time = ct.v,
                   !.is_ended = PyBool(Get(msg, "is_ended", Bool(FALSE))),
                   !.video_status = Get(msg, "video_status", Str("playing"))]]

\* update_telemetry: current_time, is_ended, and video_status when present
UpdateTelemetry(region, msg) ==
    LET ct == PyFloat(Get(msg, "current_time", Num(0)))
        r1 == [region EXCEPT !.current_time = ct.v,
                             !.is_ended = PyBool(Get(msg, "is_ended", Bool(FALSE)))]
    IN  [ok |-> ct.ok,
         v  |-> IF msg["video_status"] # Missing
                THEN [r1 EXCEPT !.video_status = msg["video_status"]]
                ELSE r1]

\* a with _region_lock block of set_duration or update_telemetry; a conversion
\* that raises leaves the store as it was and the request unanswered
CmdWrite(at, result, next_pc) ==
    /\ cmd_pc = at
    /\ region_lock = "free"
    /\ IF result.ok
       THEN /\ capture_region' = result.v
            /\ cmd_pc' = next_pc
       ELSE /\ UNCHANGED capture_region
            /\ cmd_pc' = "accept"
    /\ UNCHANGED <<serve_pc, geometry, region_lock, current_fps, active_clients, new_region,
                   st_region, st_stats, cur, prev, http_reply, sess_vars, mark, peer>>

CmdSetDuration == CmdWrite("sd_write", SetDuration(capture_region, cur.msg), "sd_reply")
CmdUpdateTelemetry ==
    CmdWrite("ut_write", UpdateTelemetry(capture_region, cur.msg), "ut_reply")

\* the branches of the dispatch, each after CmdAccept
CmdStatus == CmdStatusRegion \/ CmdStatusStats \/ CmdStatusReply
CmdRegionUpdate ==
    CmdRegionTop \/ CmdRegionLeft \/ CmdRegionWidth \/ CmdRegionHeight

\* command_server() serving the requests of M
CommandServer(M) ==
    \/ \E msg \in M : CmdAccept(msg)
    \/ CmdStatus
    \/ CmdRegionUpdate
    \/ CmdSetDuration \/ CmdUpdateTelemetry
    \/ CmdOkReply


(***************************************************************************)
(* The wire format: struct.pack("!Qd", len(png_data), v_time) + png_data.  *)
(***************************************************************************)
RECURSIVE Pow2(_)
Pow2(e) == IF e = 0 THEN 1 ELSE 2 * Pow2(e - 1)

\* floor(log2(n)) for n >= 1
RECURSIVE Log2(_)
Log2(n) == IF n < 2 THEN 0 ELSE 1 + Log2(n \div 2)

Zeros(k) == [i \in 1..k |-> 0]

\* "Q": 8 bytes, most significant first (the lengths of the model fit in two)
PackQ(n) == Zeros(6) \o <<(n \div 256) % 256, n % 256>>
UnpackQ(b) == b[7] * 256 + b[8]

\* "d": the 8 bytes of an IEEE-754 double, sign and exponent first.  Exact for
\* the integers below 32 in absolute value, NaN and the infinities.
PackD(x) ==
    CASE x.t = "nan" -> <<127, 248>> \o Zeros(6)
      [] x.t = "inf" -> <<IF x.n > 0 THEN 127 ELSE 255, 240>> \o Zeros(6)
      [] x.n = 0     -> Zeros(8)
      [] OTHER ->
           LET a    == IF x.n < 0 THEN -x.n ELSE x.n
               e    == Log2(a)
               bexp == 1023 + e
               frac == ((a - Pow2(e)) * 16) \div Pow2(e)
               sign == IF x.n < 0 THEN 128 ELSE 0
           IN  <<sign + bexp \div 16, (bexp % 16) * 16 + frac>> \o Zeros(6)

\* (mutant) the length field counts the header as well
PackHeaderWhole(png, ts) == PackQ(Len(png) + HEADER_SIZE) \o PackD(ts)

\* header: bytes = struct.pack(HEADER_FMT, len(png_data), v_time)
PackHeader(png, ts) == PackQ(Len(png)) \o PackD(ts)

\* an encoded frame of n bytes; its content is the number of the capture
Png(n, c) == [i \in 1..n |-> c]
PngSizes == {1, 2}

\* capture_png() returned None
None == <<>>

(***************************************************************************)
(* serve(): the geometry probe, the command thread, the accept loop.       *)
(***************************************************************************)
ProbeGeometries == {[width |-> 1280, height |-> 720], [width |-> 0, height |-> 0],
                    [width |-> 1280, height |-> 0]}

\* (mutant) the probe's result is logged and not checked
ServeProbeUnchecked(g) ==
    /\ serve_pc = "probe"
    /\ geometry' = g
    /\ serve_pc' = "start_cmd"
    /\ UNCHANGED <<capture_region, region_lock, current_fps, active_clients,
                   cmd_vars, http_reply, sess_vars, mark, peer>>

\* with mss.mss() as probe: monitor = probe.monitors[0]; raise RuntimeError
\* when width <= 0 or height <= 0
ServeProbe(g) ==
    /\ serve_pc = "probe"
    /\ geometry' = g
    /\ serve_pc' = IF g.width <= 0 \/ g.height <= 0 THEN "aborted" ELSE "start_cmd"
    /\ UNCHANGED <<capture_region, region_lock, current_fps, active_clients,
                   cmd_vars, http_reply, sess_vars, mark, peer>>

ServeStartCommandServer ==
    /\ serve_pc = "start_cmd"
    /\ serve_pc' = "bind"
    /\ cmd_pc' = "accept"
    /\ UNCHANGED <<geometry, capture_region, region_lock, current_fps, active_clients,
                   new_region, st_region, st_stats, cur, prev, http_reply,
                   sess_vars, mark, peer>>

ServeBind ==
    /\ serve_pc = "bind"
    /\ serve_pc' = "accept"
    /\ UNCHANGED <<geometry, capture_region, region_lock, current_fps, active_clients,
                   cmd_vars, http_reply, sess_vars, mark, peer>>

\* conn, addr = srv.accept(); Thread(target=handle_client).start()
\* connections are numbered in the order they are accepted
ServeAccept(s) ==
    /\ serve_pc = "accept"
    /\ pc[s] = "idle"
    /\ \A r \in Sessions : r < s => pc[r] # "idle"
    /\ pc' = [pc EXCEPT ![s] = "start"]
    /\ UNCHANGED <<serve_pc, geometry, capture_region, region_lock, current_fps,
                   active_clients, cmd_vars, http_reply, f_count, monitor,
                   png_data, v_time, ts_history, captures, ticks, mark, peer,
                   wire, pacing,
                   client>>

(***************************************************************************)
(* handle_client(): one thread per connection.                             *)
(***************************************************************************)
Goto(s, l) == pc' = [pc EXCEPT ![s] = l]

\* _get_capture_monitor(): the four rectangle fields, read under _region_lock
GetCaptureMonitor == Rect(capture_region)

\* (mutant) the session does not count itself when it starts
SessStartUncounted(s) ==
    /\ pc[s] = "start"
    /\ Goto(s, "open")
    /\ UNCHANGED <<serve_pc, geometry, capture_region, region_lock, current_fps,
                   active_clients, cmd_vars, http_reply, f_count, monitor,
                   png_data, v_time, ts_history, captures, ticks, mark, peer,
                   wire, pacing,
                   client>>

\* with _stats_lock: active_clients += 1
SessStart(s) ==
    /\ pc[s] = "start"
    /\ active_clients' = active_clients + 1
    /\ Goto(s, "open")
    /\ UNCHANGED <<serve_pc, geometry, capture_region, region_lock, current_fps, cmd_vars,
                   http_reply, f_count, monitor, png_data, v_time, ts_history,
                   captures, ticks, mark, peer, wire, pacing,
                   client>>

\* (mutant) a failed acquisition returns before the try block's finally
SessOpenLeaks(s, ok) ==
    /\ pc[s] = "open"
    /\ Goto(s, IF ok THEN "init" ELSE "closed")
    /\ UNCHANGED <<serve_pc, geometry, capture_region, region_lock, current_fps,
                   active_clients, cmd_vars, http_reply, f_count, monitor,
                   png_data, v_time, ts_history, captures, ticks, mark, peer,
                   wire, pacing,
                   client>>

\* with mss.mss(display=DISPLAY) as sct: the handle opens, or raises
\* a handle that could not be opened is asked for again
SessOpenRetry(s, ok) ==
    /\ pc[s] = "open"
    /\ Goto(s, IF ok THEN "init" ELSE "start")
    /\ UNCHANGED <<serve_pc, geometry, capture_region, region_lock, current_fps,
                   active_clients, cmd_vars, http_reply, f_count, monitor,
                   png_data, v_time, ts_history, captures, ticks, mark, peer,
                   wire, pacing,
                   client>>

SessOpen(s, ok) ==
    /\ pc[s] = "open"
    /\ Goto(s, IF ok THEN "init" ELSE "finally")
    /\ UNCHANGED <<serve_pc, geometry, capture_region, region_lock, current_fps,
                   active_clients, cmd_vars, http_reply, f_count, monitor,
                   png_data, v_time, ts_history, captures, ticks, mark, peer,
                   wire, pacing,
                   client>>

\* (mutant) _get_capture_monitor() reads the store without _region_lock
SessInitUnlocked(s) ==
    /\ pc[s] = "init"
    /\ monitor' = [monitor EXCEPT ![s] = GetCaptureMonitor]
    /\ Goto(s, "top")
    /\ UNCHANGED <<serve_pc, geometry, capture_region, region_lock, current_fps,
                   active_clients, cmd_vars, http_reply, f_count, png_data,
                   v_time, ts_history, captures, ticks, mark, peer, wire, pacing,
                   client>>

\* monitor = _get_capture_monitor(), before the loop
SessInit(s) ==
    /\ pc[s] = "init"
    /\ region_lock = "free"
    /\ monitor' = [monitor EXCEPT ![s] = GetCaptureMonitor]
    /\ Goto(s, "top")
    /\ UNCHANGED <<serve_pc, geometry, capture_region, region_lock, current_fps,
                   active_clients, cmd_vars, http_reply, f_count, png_data,
                   v_time, ts_history, captures, ticks, mark, peer, wire, pacing,
                   client>>

\* (mutant) the rectangle is read once, on the first iteration
RefreshOnce(n) == n = 0

\* if f_count % 10 == 0
RefreshDue(n) == n % REFRESH_EVERY = 0

\* the top of the loop: t0 = time.monotonic(), and the refresh of monitor.
\* The model follows cap iterations of a session whose client listens.
SessTop(s, cap) ==
    /\ pc[s] = "top"
    /\ ticks[s] < cap \/ peer[s] = "gone"
    /\ ticks' = [ticks EXCEPT ![s] = IF @ < cap THEN @ + 1 ELSE @]
    /\ IF RefreshDue(f_count[s])
       THEN /\ region_lock = "free"
            /\ monitor' = [monitor EXCEPT ![s] = GetCaptureMonitor]
       ELSE UNCHANGED monitor
    /\ pacing' = [pacing EXCEPT ![s] = NoPacing]
    /\ Goto(s, "capture")
    /\ UNCHANGED <<serve_pc, geometry, capture_region, region_lock, current_fps,
                   active_clients, cmd_vars, http_reply, f_count, png_data,
                   v_time, ts_history, captures, mark, peer, wire,
                   client>>

\* (mutant) a failed grab is not caught and tears the session down
SessCaptureFatal(s, n) ==
    /\ pc[s] = "capture"
    /\ IF n = 0
       THEN /\ png_data' = [png_data EXCEPT ![s] = None]
            /\ Goto(s, "finally")
            /\ UNCHANGED captures
       ELSE /\ captures' = [captures EXCEPT ![s] = @ + 1]
            /\ png_data' = [png_data EXCEPT ![s] = Png(n, captures[s] + 1)]
            /\ Goto(s, "vtime")
    /\ UNCHANGED <<serve_pc, geometry, capture_region, region_lock, current_fps,
                   active_clients, cmd_vars, http_reply, f_count, monitor,
                   v_time, ts_history, ticks, mark, peer, wire, pacing,
                   client>>

\* png_data = capture_png(sct, monitor): a frame of n bytes, or None when the
\* grab or the encoding failed (n = 0), and then time.sleep(interval); continue
SessCapture(s, n) ==
    /\ pc[s] = "capture"
    /\ IF n = 0
       THEN /\ png_data' = [png_data EXCEPT ![s] = None]
            /\ Goto(s, "fail_sleep")
            /\ UNCHANGED captures
       ELSE /\ captures' = [captures EXCEPT ![s] = @ + 1]
            /\ png_data' = [png_data EXCEPT ![s] = Png(n, captures[s] + 1)]
            /\ Goto(s, "vtime")
    /\ UNCHANGED <<serve_pc, geometry, capture_region, region_lock, current_fps,
                   active_clients, cmd_vars, http_reply, f_count, monitor,
                   v_time, ts_history, ticks, mark, peer, wire, pacing,
                   client>>

\* time.sleep(interval) after a failed capture, then the next iteration
SessFailSleep(s, elapsed) ==
    /\ pc[s] = "fail_sleep"
    /\ pacing' = [pacing EXCEPT ![s] = Slept(elapsed, INTERVAL)]
    /\ Goto(s, "top")
    /\ UNCHANGED <<serve_pc, geometry, capture_region, region_lock, current_fps,
                   active_clients, cmd_vars, http_reply, f_count, monitor,
                   png_data, v_time, ts_history, captures, ticks, mark, peer,
                   wire,
                   client>>

\* with _region_lock: v_time = capture_region["current_time"]
\* a timestamp read only when the rectangle is read
SessTimeCached(s) ==
    /\ pc[s] = "vtime"
    /\ region_lock = "free"
    /\ v_time' = [v_time EXCEPT ![s] = IF RefreshDue(f_count[s])
                                       THEN capture_region.current_time
                                       ELSE @]
    /\ Goto(s, "send")
    /\ UNCHANGED <<serve_pc, geometry, capture_region, region_lock, current_fps,
                   active_clients, cmd_vars, http_reply, f_count, monitor,
                   png_data, ts_history, captures, ticks, mark, peer, wire, pacing,
                   client>>

SessTime(s) ==
    /\ pc[s] = "vtime"
    /\ region_lock = "free"
    /\ v_time' = [v_time EXCEPT ![s] = capture_region.current_time]
    /\ Goto(s, "send")
    /\ UNCHANGED <<serve_pc, geometry, capture_region, region_lock, current_fps,
                   active_clients, cmd_vars, http_reply, f_count, monitor,
                   png_data, ts_history, captures, ticks, mark, peer, wire, pacing,
                   client>>

\* header + png_data
Frame(png, ts) == PackHeader(png, ts) \o png

(***************************************************************************)
(* verify_stream.py, the reference client: recv_frame() in a loop over the *)
(* bytes received so far.                                                  *)
(***************************************************************************)
\* recv_exact(sock, n) on the bytes w: the first n bytes, or ConnectionError
RecvExact(w, n) ==
    IF Len(w) >= n
    THEN [ok |-> TRUE, data |-> SubSeq(w, 1, n), rest |-> SubSeq(w, n + 1, Len(w))]
    ELSE [ok |-> FALSE, data |-> <<>>, rest |-> <<>>]

\* recv_frame() until the bytes run out: the frames read, and whether the
\* bytes ended on a frame's boundary
RECURSIVE RecvFrames(_)
RecvFrames(w) ==
    IF w = <<>> THEN [ok |-> TRUE, frames |-> <<>>]
    ELSE LET header == RecvExact(w, HEADER_SIZE)
             length == UnpackQ(SubSeq(header.data, 1, 8))
             body   == RecvExact(header.rest, length)
             more   == RecvFrames(body.rest)
         IN  IF ~header.ok THEN [ok |-> FALSE, frames |-> <<>>]
             ELSE IF ~body.ok THEN [ok |-> FALSE, frames |-> <<>>]
             ELSE [ok |-> more.ok,
                   frames |-> <<[length |-> length,
                                 timestamp |-> SubSeq(header.data, 9, 16),
                                 png_data |-> body.data]>> \o more.frames]

\* (mutant) every session writes to the connection accepted first
SocketShared(s) == 1

\* the socket a session writes to: the conn that serve() handed to it
SocketOf(s) == s

\* conn.sendall(header + png_data): the bytes reach the client, or the call
\* raises because the client is gone
\* a sender that writes every frame twice
SessSendTwice(s) ==
    /\ pc[s] = "send"
    /\ IF peer[s] = "open"
       THEN /\ wire' = [wire EXCEPT
                          ![SocketOf(s)] = @ \o Frame(png_data[s], v_time[s])
                                             \o Frame(png_data[s], v_time[s])]
            /\ Goto(s, "stats")
       ELSE /\ UNCHANGED wire
            /\ Goto(s, "finally")
    /\ UNCHANGED <<serve_pc, geometry, capture_region, region_lock, current_fps,
                   active_clients, cmd_vars, http_reply, f_count, monitor,
                   png_data, v_time, ts_history, captures, ticks, mark, peer, pacing,
                   client>>

SessSend(s) ==
    /\ pc[s] = "send"
    /\ IF peer[s] = "open"
       THEN /\ wire' = [wire EXCEPT
                          ![SocketOf(s)] = @ \o Frame(png_data[s], v_time[s])]
            /\ Goto(s, "stats")
       ELSE /\ UNCHANGED wire
            /\ Goto(s, "finally")
    /\ UNCHANGED <<serve_pc, geometry, capture_region, region_lock, current_fps,
                   active_clients, cmd_vars, http_reply, f_count, monitor,
                   png_data, v_time, ts_history, captures, ticks, mark, peer, pacing,
                   client>>

\* deque(maxlen=30).append(x)
\* a window that is never trimmed
AppendAll(h, x) == Append(h, x)

Append30(h, x) == IF Len(h) < TS_MAXLEN THEN Append(h, x) ELSE Append(Tail(h), x)

\* now = time.monotonic(): dt after the reading before it in the window
Reading(h, dt) == IF h = <<>> THEN 0 ELSE h[Len(h)] + dt

\* the telemetry update and f_count += 1; dividing by a span of zero raises
\* ZeroDivisionError, which ends the session
\* the float n / d, d > 0, as the fraction in lowest terms
RECURSIVE Gcd(_, _)
Gcd(a, b) == IF b = 0 THEN a ELSE Gcd(b, a % b)
Quotient(n, d) == [num |-> n \div Gcd(n, d), den |-> d \div Gcd(n, d)]

SessStats(s, dt) ==
    /\ pc[s] = "stats"
    /\ LET h == Append30(ts_history[s], Reading(ts_history[s], dt))
           span == h[Len(h)] - h[1]
       IN  /\ ts_history' = [ts_history EXCEPT ![s] = h]
           /\ IF Len(h) > 1 /\ span = 0
              THEN /\ Goto(s, "finally")
                   /\ UNCHANGED <<current_fps, f_count>>
              ELSE /\ current_fps' = IF Len(h) > 1
                                     THEN Quotient(Len(h) - 1, span)
                                     ELSE current_fps
                   /\ f_count' = [f_count EXCEPT ![s] = @ + 1]
                   /\ Goto(s, "sleep")
    /\ UNCHANGED <<serve_pc, geometry, capture_region, region_lock, active_clients,
                   cmd_vars, http_reply, monitor, png_data, v_time, captures,
                   ticks, mark, peer, wire, pacing,
                   client>>

\* if sleep_time > 0: time.sleep(sleep_time), then the next iteration
SessSleep(s, elapsed) ==
    /\ pc[s] = "sleep"
    /\ LET sleep_time == INTERVAL - elapsed
       IN  pacing' = [pacing EXCEPT ![s] = IF sleep_time > 0
                                           THEN Slept(elapsed, sleep_time)
                                           ELSE NotSlept(elapsed)]
    /\ Goto(s, "top")
    /\ UNCHANGED <<serve_pc, geometry, capture_region, region_lock, current_fps,
                   active_clients, cmd_vars, http_reply, f_count, monitor,
                   png_data, v_time, ts_history, captures, ticks, mark, peer,
                   wire,
                   client>>

\* (mutant) the counter is reset instead of decremented
SessFinallyReset(s) ==
    /\ pc[s] = "finally"
    /\ active_clients' = 0
    /\ Goto(s, "closed")
    /\ UNCHANGED <<serve_pc, geometry, capture_region, region_lock, current_fps,
                   cmd_vars, http_reply, f_count, monitor, png_data, v_time,
                   ts_history, captures, ticks, mark, peer, wire, pacing,
                   client>>

\* finally: with _stats_lock: active_clients -= 1; conn.close()
\* a finally block that clears the rate when the last client has gone
SessFinallyZeroFps(s) ==
    /\ pc[s] = "finally"
    /\ active_clients' = active_clients - 1
    /\ current_fps' = IF active_clients = 1 THEN [num |-> 0, den |-> 1]
                      ELSE current_fps
    /\ Goto(s, "closed")
    /\ UNCHANGED <<serve_pc, geometry, capture_region, region_lock, cmd_vars,
                   http_reply, f_count, monitor, png_data, v_time, ts_history,
                   captures, ticks, mark, peer, wire, pacing,
                   client>>

SessFinally(s) ==
    /\ pc[s] = "finally"
    /\ active_clients' = active_clients - 1
    /\ Goto(s, "closed")
    /\ UNCHANGED <<serve_pc, geometry, capture_region, region_lock, current_fps, cmd_vars,
                   http_reply, f_count, monitor, png_data, v_time, ts_history,
                   captures, ticks, mark, peer, wire, pacing,
                   client>>

\* the client closes its end of the connection
Disconnect(s) ==
    /\ pc[s] \notin {"idle", "closed"}
    /\ peer[s] = "open"
    /\ peer' = [peer EXCEPT ![s] = "gone"]
    /\ UNCHANGED <<serve_pc, geometry, capture_region, region_lock, current_fps,
                   active_clients, cmd_vars, http_reply, sess_vars, mark>>

\* one step of the session s, with the sizes of the frames the display can
\* yield, the steps the clock can make between two readings, and the cap
(***************************************************************************)
(* verify_stream.py: the reference client reading one session's socket.    *)
(***************************************************************************)
\* recv_exact() has joined its chunks into data and returns to recv_frame():
\* after the header the payload is read, after the payload the frame is
\* returned and the next header is read
RecvReturned(c, data) ==
    IF c.stage = "header"
    THEN LET length == UnpackQ(SubSeq(data, 1, 8))
         IN  IF length > 0
             THEN [c EXCEPT !.stage = "payload", !.remaining = length,
                            !.chunks = <<>>, !.header = data]
             ELSE [c EXCEPT !.chunks = <<>>, !.header = <<>>,
                            !.frames = Append(@, [png_data |-> <<>>,
                                                  timestamp |-> SubSeq(data, 9, 16)])]
    ELSE [c EXCEPT !.stage = "header", !.remaining = HEADER_SIZE,
                   !.chunks = <<>>, !.header = <<>>,
                   !.frames = Append(@, [png_data |-> data,
                                         timestamp |-> SubSeq(c.header, 9, 16)])]

\* a recv_exact() that returns a payload as soon as one recv() has given it
\* something
ClientRecvShort(s, k) ==
    /\ pc[s] # "idle"
    /\ peer[s] = "open"
    /\ client[s].stage \in {"header", "payload"}
    /\ k >= 1 /\ k <= client[s].remaining /\ k <= RECV_MAX
    /\ k <= Len(wire[s]) - client[s].pos
    /\ LET c    == client[s]
           data == c.chunks \o SubSeq(wire[s], c.pos + 1, c.pos + k)
           left == c.remaining - k
       IN  client' = [client EXCEPT ![s] =
                        IF left > 0 /\ c.stage = "header"
                        THEN [c EXCEPT !.chunks = data, !.remaining = left,
                                       !.pos = @ + k]
                        ELSE RecvReturned([c EXCEPT !.pos = @ + k], data)]
    /\ UNCHANGED <<serve_pc, geometry, capture_region, region_lock, current_fps,
                   active_clients, cmd_vars, http_reply, pc, f_count, monitor,
                   png_data, v_time, ts_history, captures, ticks, mark, peer,
                   wire, pacing>>

\* one sock.recv(min(remaining, 65536)) that returns k bytes, k >= 1: the
\* chunk is appended and recv_exact() returns once nothing remains
ClientRecv(s, k) ==
    /\ pc[s] # "idle"
    /\ peer[s] = "open"
    /\ client[s].stage \in {"header", "payload"}
    /\ k >= 1 /\ k <= client[s].remaining /\ k <= RECV_MAX
    /\ k <= Len(wire[s]) - client[s].pos
    /\ LET c    == client[s]
           data == c.chunks \o SubSeq(wire[s], c.pos + 1, c.pos + k)
           left == c.remaining - k
       IN  client' = [client EXCEPT ![s] =
                        IF left > 0
                        THEN [c EXCEPT !.chunks = data, !.remaining = left,
                                       !.pos = @ + k]
                        ELSE RecvReturned([c EXCEPT !.pos = @ + k], data)]
    /\ UNCHANGED <<serve_pc, geometry, capture_region, region_lock, current_fps,
                   active_clients, cmd_vars, http_reply, pc, f_count, monitor,
                   png_data, v_time, ts_history, captures, ticks, mark, peer,
                   wire, pacing>>

\* sock.recv() returns b"" because the server has closed the connection and
\* every byte it wrote has been read: recv_exact() raises ConnectionError
ClientEof(s) ==
    /\ pc[s] = "closed"
    /\ peer[s] = "open"
    /\ client[s].stage \in {"header", "payload"}
    /\ client[s].pos = Len(wire[s])
    /\ client' = [client EXCEPT ![s].stage = "error"]
    /\ UNCHANGED <<serve_pc, geometry, capture_region, region_lock, current_fps,
                   active_clients, cmd_vars, http_reply, pc, f_count, monitor,
                   png_data, v_time, ts_history, captures, ticks, mark, peer,
                   wire, pacing>>

\* every size of chunk that recv() can return in the model
ChunkSizes == 1..HEADER_SIZE

Client(s) ==
    \/ \E k \in ChunkSizes : ClientRecv(s, k)
    \/ ClientEof(s)

Session(s, sizes, steps, cap, work) ==
    \/ SessStart(s)
    \/ \E ok \in BOOLEAN : SessOpen(s, ok)
    \/ SessInit(s)
    \/ SessTop(s, cap)
    \/ \E n \in {0} \cup sizes : SessCapture(s, n)
    \/ \E elapsed \in work : SessFailSleep(s, elapsed)
    \/ SessTime(s)
    \/ SessSend(s)
    \/ \E dt \in steps : SessStats(s, dt)
    \/ \E elapsed \in work : SessSleep(s, elapsed)
    \/ SessFinally(s)

\* serve() up to its accept loop
ServeStartup ==
    \/ \E g \in ProbeGeometries : ServeProbe(g)
    \/ ServeStartCommandServer
    \/ ServeBind


(***************************************************************************)
(* control_api.py: the two other places that assign capture_region.  Both  *)
(* enter "with streaming_server.region_lock", and an attribute the module  *)
(* streaming_server does not define raises AttributeError there.           *)
(***************************************************************************)
\* the module-level names streaming_server.py defines that control_api.py
\* could reach
\* a streaming_server that has the names control_api.py asks for
ServerAttrsPublic == {"capture_region", "region_lock", "current_fps",
                      "active_clients", "stats_lock", "video_telemetry"}

ServerAttrs == {"capture_region", "_region_lock", "_last_roi_log",
                "current_fps", "active_clients", "_stats_lock"}
HasAttr(a) == a \in ServerAttrs

HttpRegions == {[top |-> 1, left |-> 2, width |-> 100, height |-> 0],
                [top |-> 1, left |-> 2, width |-> 100, height |-> 60]}

\* POST /sensor/region
HttpUpdateRegion(req) ==
    /\ serve_pc = "accept"
    /\ IF req.width <= 0 \/ req.height <= 0
       THEN /\ http_reply' = "400"
            /\ UNCHANGED capture_region
       ELSE IF ~HasAttr("region_lock")
       THEN /\ http_reply' = "500"
            /\ UNCHANGED capture_region
       ELSE /\ region_lock = "free"
            /\ capture_region' = [capture_region EXCEPT
                   !.top = req.top, !.left = req.left,
                   !.width = req.width, !.height = req.height]
            /\ http_reply' = "200"
    /\ UNCHANGED <<serve_pc, geometry, region_lock, current_fps, active_clients, cmd_vars,
                   sess_vars, mark, peer>>

\* what the page reports to monitor_playback(): the video's rectangle, if any
PageRects == {[top |-> 3, left |-> 4, width |-> 800, height |-> 450],
              [top |-> 3, left |-> 4, width |-> 50, height |-> 0]}

\* monitor_playback(): one round of the loop with a status that has a "rect"
\* and no "time"; an exception is caught by the loop and the round is dropped
MonitorPlayback(rect) ==
    /\ serve_pc = "accept"
    /\ IF ~HasAttr("region_lock")
       THEN UNCHANGED capture_region
       ELSE /\ region_lock = "free"
            /\ IF rect.width > 50 /\ rect.height > 50
               THEN capture_region' = [capture_region EXCEPT
                        !.top = rect.top, !.left = rect.left,
                        !.width = rect.width, !.height = rect.height]
               ELSE UNCHANGED capture_region
    /\ UNCHANGED <<serve_pc, geometry, region_lock, current_fps, active_clients, cmd_vars,
                   http_reply, sess_vars, mark, peer>>

ControlApi ==
    \/ \E req \in HttpRegions : HttpUpdateRegion(req)
    \/ \E rect \in PageRects : MonitorPlayback(rect)

(***************************************************************************)
(* The whole server.                                                       *)
(***************************************************************************)
ClockSteps == {0, 1}
\* the ticks of a session that fills its window of TS_MAXLEN and slides it
WindowRun == TS_MAXLEN + 1
\* the time an iteration has taken when it reaches its sleep: less than the
\* period, exactly the period, more than the period
WorkTimes == {1, INTERVAL, INTERVAL + 1}
\* an iteration that takes a third of the period
Quick == {1}
Sessions1 == {1}

Next ==
    \/ ServeStartup
    \/ \E s \in Sessions : ServeAccept(s)
    \/ CommandServer(CoreMsgs)
    \/ ControlApi
    \/ \E s \in Sessions : Session(s, PngSizes, ClockSteps, MaxTicks, Quick)
    \/ \E s \in Sessions : Disconnect(s)

Spec == Init /\ [][Next]_vars

\* the command channel and the control API, with no client of the stream
CmdMsgs == CoreMsgs \cup DurationMsgs
NextCmd == ServeStartup \/ CommandServer(CmdMsgs) \/ ControlApi
SpecCmd == Init /\ [][NextCmd]_vars

\* the stream server and its sessions
NextStream ==
    \/ ServeStartup
    \/ \E s \in Sessions : ServeAccept(s)
    \/ \E s \in Sessions : Session(s, PngSizes, ClockSteps, MaxTicks, Quick)
    \/ \E s \in Sessions : Disconnect(s)
SpecStream == Init /\ [][NextStream]_vars


\* region updates from every writer, and one session that reads the rectangle
RegionMsgs == ValidRegionMsgs \cup MoreRegionMsgs \cup InvalidRegionMsgs
NextWriters ==
    \/ ServeStartup
    \/ \E s \in Sessions1 : ServeAccept(s)
    \/ \E msg \in RegionMsgs : CmdAccept(msg)
    \/ CmdRegionUpdate
    \/ CmdOkReply
    \/ ControlApi
    \/ \E s \in Sessions1 : Session(s, {1}, {1}, MaxTicks, Quick)
SpecWriters == Init /\ [][NextWriters]_vars

\* accepted region updates, and one session that runs for more than
\* REFRESH_EVERY frames
NextRefresh ==
    \/ ServeStartup
    \/ \E s \in Sessions1 : ServeAccept(s)
    \/ \E msg \in ValidRegionMsgs : CmdAccept(msg)
    \/ CmdRegionUpdate
    \/ CmdOkReply
    \/ \E s \in Sessions1 : Session(s, {1}, {1}, LongRun, Quick)
SpecRefresh == Init /\ [][NextRefresh]_vars

\* the sessions, and the status requests that read their counter
NextStatus ==
    \/ ServeStartup
    \/ \E s \in Sessions : ServeAccept(s)
    \/ \E msg \in StatusMsgs : CmdAccept(msg)
    \/ CmdStatus
    \/ \E s \in Sessions : Session(s, {1}, ClockSteps, MaxTicks, Quick)
    \/ \E s \in Sessions : Disconnect(s)
SpecStatus == Init /\ [][NextStatus]_vars

\* one session, and the telemetry its frames carry
NextFrame ==
    \/ ServeStartup
    \/ \E s \in Sessions1 : ServeAccept(s)
    \/ \E msg \in TelemetryMsgs : CmdAccept(msg)
    \/ CmdUpdateTelemetry
    \/ CmdOkReply
    \/ \E s \in Sessions1 : Session(s, PngSizes, ClockSteps, MaxTicks, Quick)
    \/ \E s \in Sessions1 : Disconnect(s)
SpecFrame == Init /\ [][NextFrame]_vars

\* Two sessions of one-byte frames, each of which may fail to open its
\* capture handle, fail a capture, or lose its client.
NextPair ==
    \/ ServeStartup
    \/ \E s \in Sessions : ServeAccept(s)
    \/ \E s \in Sessions : Session(s, {1}, ClockSteps, MaxTicks, Quick)
    \/ \E s \in Sessions : Disconnect(s)
SpecPair == Init /\ [][NextPair]_vars

\* A session that opens its handle and captures every frame
Steady(s, cap, dt) ==
    \/ SessStart(s)
    \/ SessOpen(s, TRUE)
    \/ SessInit(s)
    \/ SessTop(s, cap)
    \/ SessCapture(s, 1)
    \/ SessTime(s)
    \/ SessSend(s)
    \/ SessStats(s, dt)
    \/ SessSleep(s, 1)

\* One session that streams until its window is full and slides, a second,
\* slower one that reports beside it, and status requests.
NextWindow ==
    \/ ServeStartup
    \/ \E s \in Sessions : ServeAccept(s)
    \/ \E msg \in StatusMsgs : CmdAccept(msg)
    \/ CmdStatus
    \/ Steady(1, WindowRun, 1)
    \/ Steady(2, MaxTicks, 2)
SpecWindow == Init /\ [][NextWindow]_vars

\* The command server with telemetry requests of any value.
ValueMsgs ==
    StatusMsgs \cup DurationMsgs \cup TelemetryMsgs \cup NegativeMsgs
    \cup OddStatusMsgs
NextValues ==
    \/ ServeStartup
    \/ \E msg \in ValueMsgs : CmdAccept(msg)
    \/ CmdStatus
    \/ CmdSetDuration \/ CmdUpdateTelemetry
    \/ CmdOkReply
SpecValues == Init /\ [][NextValues]_vars

\* Two sessions that report, lose their clients and close, and status
\* requests.
NextIdle ==
    \/ ServeStartup
    \/ \E s \in Sessions : ServeAccept(s)
    \/ \E msg \in StatusMsgs : CmdAccept(msg)
    \/ CmdStatus
    \/ \E s \in Sessions : Session(s, {1}, {1}, MaxTicks, Quick)
    \/ \E s \in Sessions : Disconnect(s)
SpecIdle == Init /\ [][NextIdle]_vars

\* One session and the reference client that reads its socket in chunks of
\* every size.
NextClient ==
    \/ ServeStartup
    \/ \E s \in Sessions1 : ServeAccept(s)
    \/ \E s \in Sessions1 : Session(s, PngSizes, ClockSteps, MaxTicks, Quick)
    \/ \E s \in Sessions1 : Client(s)
SpecClient == Init /\ [][NextClient]_vars

\* One session whose iterations take less than, exactly and more than a period.
NextPacing ==
    \/ ServeStartup
    \/ \E s \in Sessions1 : ServeAccept(s)
    \/ \E s \in Sessions1 : Session(s, PngSizes, {1}, MaxTicks, WorkTimes)
    \/ \E s \in Sessions1 : Disconnect(s)
SpecPacing == Init /\ [][NextPacing]_vars

\* the stream server under the scheduler: a thread that can run does run
SpecLive ==
    /\ Init /\ [][NextStream]_vars
    /\ \A s \in Sessions : WF_vars(Session(s, PngSizes, ClockSteps, MaxTicks, Quick))

\* the command channel alone, with requests of every kind
TelemetryInputs ==
    StatusMsgs \cup ValidRegionMsgs \cup TelemetryMsgs \cup PartialTelemetryMsgs
    \cup TelemetryDurationMsgs \cup DurationMsgs \cup UnknownMsgs
    \cup MalformedMsgs \cup {EmptyData}
NextTelemetry ==
    \/ ServeStartup
    \/ CommandServer(TelemetryInputs)
SpecTelemetry == Init /\ [][NextTelemetry]_vars

\* numbers that are not finite, the status that reports them and a session
\* that stamps its frames with them
NextNonFinite ==
    \/ ServeStartup
    \/ \E s \in Sessions1 : ServeAccept(s)
    \/ \E msg \in NonFiniteMsgs \cup StatusMsgs : CmdAccept(msg)
    \/ CmdStatus
    \/ CmdSetDuration \/ CmdUpdateTelemetry
    \/ CmdOkReply
    \/ \E s \in Sessions1 : Session(s, {1}, {1}, MaxTicks, Quick)
SpecNonFinite == Init /\ [][NextNonFinite]_vars

\* two different rectangles written while a status request and a session read
TornInputs == StatusMsgs \cup ValidRegionMsgs \cup MoreRegionMsgs \cup DurationMsgs
NextTorn ==
    \/ ServeStartup
    \/ \E s \in Sessions1 : ServeAccept(s)
    \/ \E msg \in TornInputs : CmdAccept(msg)
    \/ CmdStatus
    \/ CmdRegionUpdate
    \/ CmdSetDuration
    \/ CmdOkReply
    \/ \E s \in Sessions1 : Session(s, {1}, {1}, MaxTicks, Quick)
SpecTorn == Init /\ [][NextTorn]_vars

(***************************************************************************)
(* The claims.                                                             *)
(***************************************************************************)
IsCommand(x, cmd) == x = Str(cmd)
RegionKeys == {"top", "left", "width", "height"}
\* a region_update that carries four numbers
WellFormedRegion(msg) ==
    IsCommand(msg["command"], "region_update") /\ \A k \in RegionKeys : msg[k].t = "num"
StatusAnswered == IsCommand(cur.msg["command"], "status") /\ cur.reply.status = "ok"

\* C1: once a region_update with width > 0 and height > 0 has been answered
\* ok, the status request that follows it returns exactly the requested top,
\* left, width and height, and current_time, duration, is_ended and
\* video_status as they were before the region_update.
StatusAfterRegionUpdate ==
    (/\ StatusAnswered
     /\ IsCommand(prev.command, "region_update")
     /\ prev.asked.width > 0 /\ prev.asked.height > 0
     /\ prev.status = "ok")
    => /\ Rect(cur.reply.capture_region) = prev.asked
       /\ Telemetry(cur.reply.capture_region) = Telemetry(prev.before)

StatusAfterRegionUpdateSeen ==
    /\ StatusAnswered
    /\ IsCommand(prev.command, "region_update")
    /\ prev.status = "ok"
    /\ prev.asked = [top |-> 10, left |-> 20, width |-> 640, height |-> 480]
    /\ Rect(prev.before) = Rect(DefaultRegion)
    /\ cur.reply.capture_region.current_time = Num(5)
    /\ cur.reply.capture_region.duration = Num(9)

\* C2: a region_update with width <= 0 or height <= 0 is answered
\* {status: error, message: invalid dimensions} and changes no field of the
\* capture region, and the status request that follows it returns the
\* rectangle stored before the rejected request.
InvalidRegionUpdateRejected ==
    /\ (/\ WellFormedRegion(cur.msg)
        /\ (Asked(cur.msg).width <= 0 \/ Asked(cur.msg).height <= 0))
       => /\ cur.reply.status = "error"
          /\ cur.reply.message = "invalid dimensions"
          /\ capture_region = cur.before
    /\ (/\ StatusAnswered
        /\ IsCommand(prev.command, "region_update")
        /\ (prev.asked.width <= 0 \/ prev.asked.height <= 0)
        /\ prev.status = "error")
       => Rect(cur.reply.capture_region) = Rect(prev.before)

InvalidRegionUpdateRejectedSeen ==
    /\ StatusAnswered
    /\ IsCommand(prev.command, "region_update")
    /\ prev.asked.width = 0
    /\ prev.status = "error"
    /\ Rect(prev.before) = [top |-> 10, left |-> 20, width |-> 640, height |-> 480]
    /\ Rect(cur.reply.capture_region) = Rect(prev.before)

\* C3: in every reachable state, whatever the command channel, POST
\* /sensor/region and the auto-detect loop have done and whatever the sessions
\* have read, the stored capture region has width > 0 and height > 0.
PositiveDimensions == capture_region.width > 0 /\ capture_region.height > 0

PositiveDimensionsSeen ==
    /\ prev.status = "error" /\ prev.asked.height < 0
    /\ Rect(capture_region) = [top |-> 50, left |-> 60, width |-> 320, height |-> 240]
    /\ http_reply = "500"
    /\ monitor[1] = [top |-> 10, left |-> 20, width |-> 640, height |-> 480]
    /\ f_count[1] > 0

\* C9: after an accepted region_update, a session that was streaming captures
\* against the new rectangle within 10 iterations of its loop, iterations whose
\* capture failed counted.
FreshWithinTenTicks ==
    \A s \in Sessions :
        (/\ mark[s].set
         /\ region_lock = "free"
         /\ pc[s] = "capture"
         /\ ticks[s] - mark[s].ticks >= REFRESH_EVERY)
        => monitor[s] = Rect(capture_region)

\* What handle_client bounds instead is the number of frames sent with the
\* old rectangle: f_count does not advance on an iteration whose capture
\* fails, so such iterations do not bring the refresh closer.
FreshWithinTenFrames ==
    \A s \in Sessions :
        (/\ mark[s].set
         /\ region_lock = "free"
         /\ pc[s] = "capture"
         /\ f_count[s] - mark[s].frames >= REFRESH_EVERY)
        => monitor[s] = Rect(capture_region)

FreshWithinTenFramesSeen ==
    /\ mark[1].set
    /\ region_lock = "free"
    /\ pc[1] = "capture"
    /\ mark[1].frames = 0
    /\ f_count[1] = REFRESH_EVERY
    /\ monitor[1] = Rect(capture_region)
    /\ Rect(capture_region) # Rect(DefaultRegion)


\* the frames the client of session s has received
Received(s) == RecvFrames(wire[s])
Last(q) == q[Len(q)]

\* C4: every frame a session writes is an 8-byte big-endian length N, the
\* 8-byte big-endian double timestamp and exactly N bytes of payload, N the
\* length of the frame just captured: the bytes on the socket always split
\* into such frames, and the one written last is the frame just captured.
FramesLengthPrefixed ==
    \A s \in Sessions :
        /\ Received(s).ok
        /\ \A i \in 1..Len(Received(s).frames) :
              LET f == Received(s).frames[i]
              IN  /\ f.length = Len(f.png_data)
                  /\ f.length \in PngSizes
                  /\ Len(f.timestamp) = 8
        /\ pc[s] = "stats" =>
              /\ Received(s).frames # <<>>
              /\ Last(Received(s).frames).png_data = png_data[s]
              /\ Last(Received(s).frames).length = Len(png_data[s])
              /\ Last(Received(s).frames).timestamp = PackD(v_time[s])

FramesLengthPrefixedSeen ==
    /\ pc[1] = "stats"
    /\ Len(Received(1).frames) = 2
    /\ Received(1).frames[1].length = 2
    /\ Received(1).frames[1].timestamp = PackD(Num(0))
    /\ Received(1).frames[2].length = 1
    /\ Received(1).frames[2].timestamp = PackD(Num(5))
    /\ Len(wire[1]) = 2 * HEADER_SIZE + 3

\* C5: within a session the frames are written in the order they were
\* captured and whole, whatever the other sessions do, and only the session
\* that owns a socket writes to it: the bytes on each socket split into
\* frames, each a frame this session captured, in increasing capture order.
FramesInCaptureOrder ==
    \A s \in Sessions :
        /\ Received(s).ok
        /\ \A i \in 1..Len(Received(s).frames) :
              LET f == Received(s).frames[i]
              IN  /\ f.png_data # <<>>
                  /\ \A k \in 1..Len(f.png_data) : f.png_data[k] = f.png_data[1]
                  /\ f.png_data[1] \in 1..captures[s]
                  /\ \A j \in 1..(i - 1) :
                        Received(s).frames[j].png_data[1] < f.png_data[1]

FramesInCaptureOrderSeen ==
    /\ Len(Received(1).frames) = 2
    /\ Len(Received(2).frames) = 2
    /\ Received(1).frames[2].png_data = <<2, 2>>
    /\ Received(2).frames[2].png_data = <<2>>

\* the sessions that have counted themselves in and not yet out
Counted == {"open", "init", "finally"} \cup Streaming
\* both clients are connected: accepted, not closed by the server, not gone
BothConnected == \A s \in Sessions : pc[s] \notin {"idle", "closed"} /\ peer[s] = "open"
\* the status request reads the counters
StatusReads == cmd_pc = "st_stats" /\ cmd_pc' = "st_reply"

GoneSessionsClose ==
    /\ \A s \in Sessions : (peer[s] = "gone") ~> (pc[s] = "closed")
    /\ (\A s \in Sessions : peer[s] = "gone") ~> (active_clients = 0)

\* C8: every session counts itself in once and out once, whichever step ends
\* it: active_clients is never negative and is the number of sessions that
\* have started and not yet closed.
ClientsCounted ==
    /\ active_clients >= 0
    /\ active_clients = Cardinality({s \in Sessions : pc[s] \in Counted})

ClientsCountedSeen ==
    /\ active_clients = 0
    /\ pc[1] = "closed" /\ peer[1] = "open" /\ ts_history[1] = <<0, 0>>
    /\ pc[2] = "closed" /\ peer[2] = "open" /\ monitor[2] = NoRect


\* C10: a capture that fails on a tick leaves the session streaming: nothing
\* is written, active_clients and the socket stay as they are, the session goes
\* on to its next tick, and a tick whose capture succeeds writes one frame
\* that carries the store's current_time read on that tick.
FailedCaptureSkipsTick ==
    [][\A s \in Sessions :
         /\ (pc[s] = "capture" /\ pc'[s] # "capture" /\ png_data'[s] = None)
            => /\ pc'[s] \in Streaming
               /\ wire' = wire
               /\ active_clients' = active_clients
         /\ (pc[s] = "fail_sleep" /\ pc'[s] # "fail_sleep") => pc'[s] = "top"
         /\ (pc[s] = "capture" /\ pc'[s] # "capture" /\ png_data'[s] # None)
            => pc'[s] = "vtime"
         /\ (pc[s] = "vtime" /\ pc'[s] # "vtime")
            => pc'[s] = "send" /\ v_time'[s] = capture_region.current_time
         /\ (pc[s] = "send" /\ pc'[s] # "send" /\ peer[s] = "open")
            => /\ wire'[s] = wire[s] \o PackQ(Len(png_data[s]))
                                    \o PackD(v_time[s]) \o png_data[s]
               /\ pc'[s] = "stats"
      ]_vars

FailedCaptureSkipsTickSeen ==
    /\ pc[1] = "stats"
    /\ ticks[1] = 2
    /\ captures[1] = 1
    /\ Len(Received(1).frames) = 1
    /\ Received(1).frames[1].timestamp = PackD(Num(5))
    /\ active_clients = 1

\* C16: the geometry probe comes first: when the probed width or height is
\* not positive serve() fails with the command thread not started, the stream
\* socket not bound and no connection accepted; the command thread runs, the
\* socket is bound and a connection is accepted only after a probe that gave
\* a positive width and height.
ProbeBeforeAnything ==
    /\ serve_pc \in {"probe", "aborted"}
       => /\ cmd_pc = "off"
          /\ \A s \in Sessions : pc[s] = "idle" /\ wire[s] = <<>>
          /\ active_clients = 0
    /\ (serve_pc # "probe" /\ (geometry.width <= 0 \/ geometry.height <= 0))
       => serve_pc = "aborted"
    /\ (cmd_pc # "off" \/ serve_pc \in {"bind", "accept"}
        \/ \E s \in Sessions : pc[s] # "idle")
       => geometry.width > 0 /\ geometry.height > 0

ProbeBeforeAnythingSeen ==
    /\ serve_pc = "aborted"
    /\ geometry = [width |-> 1280, height |-> 0]
    /\ cmd_pc = "off"
    /\ \A s \in Sessions : pc[s] = "idle"

\* the request cur has been dealt with: the command thread is back at accept
Handled(cmd) == cmd_pc = "accept" /\ IsCommand(cur.msg["command"], cmd)
TelemetryKeys == {"current_time", "is_ended", "video_status", "duration"}

\* C11: a NaN, +Infinity or -Infinity in update_telemetry or set_duration is
\* stored as 0.0: current_time and duration in the store are always finite,
\* and so are those of every status reply and the timestamp of every frame.
NonFiniteStoredAsZero ==
    /\ IsFinite(capture_region.current_time)
    /\ IsFinite(capture_region.duration)
    /\ StatusAnswered => /\ IsFinite(cur.reply.capture_region.current_time)
                         /\ IsFinite(cur.reply.capture_region.duration)
    /\ \A s \in Sessions : IsFinite(v_time[s])

\* where the value goes: a status reply and a frame that carry NaN
NonFiniteOnTheWire ==
    /\ StatusAnswered
    /\ cur.reply.capture_region.duration = NaN
    /\ Received(1).frames # <<>>
    /\ Last(Received(1).frames).timestamp = PackD(NaN)

TelemetryDurationStored ==
    (Handled("update_telemetry") /\ cur.reply.status = "ok")
    => /\ cur.msg["duration"] # Missing
            => capture_region.duration = cur.msg["duration"]
       /\ cur.msg["current_time"] # Missing
            => capture_region.current_time = cur.msg["current_time"]
       /\ cur.msg["is_ended"] # Missing
            => capture_region.is_ended = PyBool(cur.msg["is_ended"])
       /\ cur.msg["video_status"] # Missing
            => capture_region.video_status = cur.msg["video_status"]

\* a decoded request whose command is none of the four
UnknownCommand(msg) ==
    /\ msg["command"].t \in {"str", "missing"}
    /\ msg["command"] \notin {Str("status"), Str("region_update"),
                              Str("set_duration"), Str("update_telemetry")}

\* C14: a request with a command that is none of status, region_update,
\* set_duration, update_telemetry is answered {status: error, message:
\* unknown command} and changes nothing in the store or the counters.
UnknownCommandAnswered ==
    (cmd_pc = "accept" /\ cur # NoExchange /\ UnknownCommand(cur.msg))
    => /\ cur.reply.status = "error"
       /\ cur.reply.message = "unknown command"
       /\ capture_region = cur.before

\* a request that does not decode, or a known command with a field that is
\* missing or does not convert
Malformed(msg) ==
    \/ msg["command"].t = "undecodable"
    \/ IsCommand(msg["command"], "region_update") /\ ~ParseRegion(msg).ok
    \/ IsCommand(msg["command"], "set_duration")
       /\ ~PyFloat(Get(msg, "duration", Num(0))).ok
    \/ IsCommand(msg["command"], "update_telemetry")
       /\ ~PyFloat(Get(msg, "current_time", Num(0))).ok

\* C15: a malformed request is answered with an error, changes nothing in the
\* store, and the command thread goes on to accept the next request.
MalformedAnswered ==
    (cmd_pc = "accept" /\ Malformed(cur.msg))
    => /\ cur.reply.status = "error"
       /\ capture_region = cur.before

\* the default rectangle, or the four values of one region_update
Whole(r) ==
    \/ r = Rect(DefaultRegion)
    \/ \E msg \in ValidRegionMsgs \cup MoreRegionMsgs : r = Asked(msg)

\* C17: whatever region_update, set_duration, update_telemetry, status and the
\* sessions do in between, the rectangle a status request copies or returns
\* and the rectangle a session captures with is the default rectangle or the
\* four values of one accepted region_update, never a mix of two.
NoTornRegion ==
    /\ Whole(Rect(st_region))
    /\ StatusAnswered => Whole(Rect(cur.reply.capture_region))
    /\ \A s \in Sessions : pc[s] \in Streaming => Whole(monitor[s])

NoTornRegionSeen ==
    /\ cmd_pc = "ru_width"
    /\ ~Whole(Rect(capture_region))
    /\ pc[1] = "capture"
    /\ monitor[1] = [top |-> 10, left |-> 20, width |-> 640, height |-> 480]
    /\ Rect(st_region) = [top |-> 50, left |-> 60, width |-> 320, height |-> 240]

\* the command thread is in accept(), recv() or sendall()
CmdBlocked == cmd_pc \in {"off", "accept", "st_reply", "ru_reply", "sd_reply", "ut_reply"}
\* a session is in sendall() or in time.sleep()
SessBlocked(s) == pc[s] \in {"send", "sleep", "fail_sleep"}

SessionState(s) ==
    <<pc[s], f_count[s], monitor[s], png_data[s], v_time[s], ts_history[s],
      captures[s], wire[s], peer[s]>>
\* the capture handle of a session is open inside "with mss.mss() as sct"
HandleOpen(s) == pc[s] \in {"init"} \cup Streaming

\* C19: a failed socket write closes the session it happened in and no other:
\* the session leaves the loop and releases its capture handle, then
\* decrements active_clients by one and closes its socket; every other
\* session and the capture region stay as they are.
WriteFailureClosesOne ==
    [][\A s \in Sessions :
         /\ (pc[s] = "send" /\ pc'[s] # "send" /\ peer[s] = "gone")
            => /\ pc'[s] = "finally" /\ ~HandleOpen(s)'
               /\ active_clients' = active_clients
               /\ capture_region' = capture_region
               /\ \A r \in Sessions \ {s} : SessionState(r)' = SessionState(r)
         /\ (pc[s] = "finally" /\ pc'[s] # "finally")
            => /\ pc'[s] = "closed"
               /\ active_clients' = active_clients - 1
               /\ capture_region' = capture_region
               /\ \A r \in Sessions \ {s} : SessionState(r)' = SessionState(r)
         /\ pc[s] = "closed" => SessionState(s)' = SessionState(s)
      ]_vars

WriteFailureClosesOneSeen ==
    /\ active_clients = 1
    /\ pc[1] = "closed" /\ peer[1] = "gone" /\ captures[1] > Len(Received(1).frames)
    /\ pc[2] = "stats" /\ peer[2] = "open" /\ Len(Received(2).frames) = 2

\* C20: the capture region is read on every frame: a capture made on an
\* iteration that began after a region_update was applied uses the new
\* rectangle.
FreshOnEveryFrame ==
    \A s \in Sessions :
        (/\ mark[s].set
         /\ region_lock = "free"
         /\ pc[s] = "capture"
         /\ ticks[s] > mark[s].ticks)
        => monitor[s] = Rect(capture_region)

\* C21: per frame the server writes the 8-byte big-endian payload length
\* followed directly by the N bytes of PNG data, nothing in between (the wire
\* protocol of the module docstring).  The code packs "!Qd": the 8 bytes of
\* the timestamp stand between the length and the payload.
PayloadFollowsLength ==
    \A s \in Sessions :
        pc[s] = "stats" =>
            LET n == Len(png_data[s])
                w == wire[s]
            IN  /\ Len(w) >= 8 + n
                /\ SubSeq(w, Len(w) - n - 7, Len(w)) = PackQ(n) \o png_data[s]

\* C23: a session that has been streaming leaves Streaming only because a
\* socket write failed; no capture outcome, no telemetry bookkeeping step (the
\* FPS computation with equal newest and oldest sample times included) and no
\* command closes it.  The division by a zero span raises and closes it.
StreamingLeftOnlyByWriteFailure ==
    \A s \in Sessions :
        (pc[s] \in {"finally", "closed"} /\ captures[s] > 0) => peer[s] = "gone"

\* the part of the tick period that is left when elapsed has passed since t0
Remainder(elapsed) == IF INTERVAL - elapsed > 0 THEN INTERVAL - elapsed ELSE 0

\* C26: a tick whose capture failed sleeps only the remainder of the period,
\* and a successful tick sleeps max(0, period - elapsed), not at all when the
\* iteration took a period or more.  The failed tick sleeps the whole period.
TickSleepsTheRemainder ==
    \A s \in Sessions :
        (pc[s] = "top" /\ pacing[s] # NoPacing) =>
            /\ pacing[s].sleep_time = Remainder(pacing[s].elapsed)
            /\ pacing[s].slept = (Remainder(pacing[s].elapsed) > 0)

\* what holds of the successful tick alone
SentTickSleepsTheRemainder ==
    \A s \in Sessions :
        (pc[s] = "top" /\ pacing[s] # NoPacing /\ png_data[s] # None) =>
            /\ pacing[s].sleep_time = Remainder(pacing[s].elapsed)
            /\ pacing[s].slept = (Remainder(pacing[s].elapsed) > 0)

\* C28: the command channel handles one request at a time: every request it
\* has read is applied, answered and its connection closed before the next
\* connection is accepted, and while a request is being handled no reply has
\* been sent and the connection is open.  Requests that raise are neither
\* answered nor closed, and a request with an unknown command gets no reply.
OneRequestAtATime ==
    /\ (cmd_pc = "accept" /\ cur # NoExchange /\ Command(cur.msg).t # "empty")
       => /\ cur.reply.status # "none"
          /\ cur.closed
    /\ cmd_pc \notin {"off", "accept"} => (cur.reply.status = "none" /\ ~cur.closed)

\* C29: a status request changes no shared state and returns the capture
\* region, fps and active_clients; a set_duration request always replies ok
\* and changes only the duration field.  A duration that float() rejects gets
\* no reply.
StatusReadsDurationWrites ==
    /\ Handled("status")
       => /\ cur.reply.status = "ok"
          /\ capture_region = cur.before
          /\ cur.reply.capture_region = capture_region
          /\ cur.reply.fps = current_fps
          /\ cur.reply.active_clients = active_clients
    /\ Handled("set_duration")
       => /\ cur.reply.status = "ok"
          /\ capture_region = [cur.before EXCEPT !.duration = capture_region.duration]

\* C30: before any command has been processed the capture region is 0, 0,
\* 1280x720 with current_time 0.0, duration 0.0, is_ended false and status
\* playing, fps is 0.0 and active_clients is 0, and a status request made then
\* returns exactly these values.
DefaultsAtStart ==
    LET start == [top |-> 0, left |-> 0, width |-> 1280, height |-> 720,
                  current_time |-> Num(0), duration |-> Num(0),
                  is_ended |-> FALSE, video_status |-> Str("playing")]
    IN  /\ cur = NoExchange
           => /\ capture_region = start
              /\ current_fps.num = 0
              /\ active_clients = 0
        /\ (StatusAnswered /\ prev = Summary(NoExchange))
           => /\ cur.reply.capture_region = start
              /\ cur.reply.fps.num = 0
              /\ cur.reply.active_clients = 0

DefaultsAtStartSeen ==
    /\ StatusAnswered
    /\ prev = Summary(NoExchange)
    /\ cur.reply.capture_region.width = 1280
    /\ cur.reply.capture_region.video_status = Str("playing")

\* the order of the positions of handle_client
Rank(p) ==
    CASE p = "idle" -> 0
      [] p = "start" -> 1
      [] p = "open" -> 2
      [] p = "init" -> 3
      [] p \in Streaming -> 4
      [] p = "finally" -> 5
      [] p = "closed" -> 6

\* the states of a session: Connecting until the capture handle is open and
\* the monitor is read, Closing inside the finally block
Phase(p) ==
    CASE p = "idle" -> "Idle"
      [] p \in {"start", "open", "init"} -> "Connecting"
      [] p \in Streaming -> "Streaming"
      [] p = "finally" -> "Closing"
      [] p = "closed" -> "Closed"

PhaseSteps ==
    {<<"Idle", "Connecting">>, <<"Connecting", "Streaming">>,
     <<"Connecting", "Closing">>, <<"Streaming", "Closing">>,
     <<"Closing", "Closed">>}

\* C22: a session moves only along Connecting -> Streaming -> Closed, or
\* Connecting -> Closed when the capture handle cannot be opened; a closed
\* session captures, writes and counts nothing more, and a failed acquisition
\* changes the state of no other session.
SessionLifecycle ==
    [][\A s \in Sessions :
          /\ Rank(pc'[s]) >= Rank(pc[s])
          /\ Phase(pc'[s]) # Phase(pc[s])
             => <<Phase(pc[s]), Phase(pc'[s])>> \in PhaseSteps
          /\ pc[s] = "closed" => SessionState(s)' = SessionState(s)
          /\ active_clients' # active_clients
             => \E o \in Sessions : pc[o] # "closed" /\ pc'[o] # pc[o]
          /\ (pc[s] = "open" /\ pc'[s] = "finally")
             => /\ active_clients' = active_clients
                /\ \A o \in Sessions \ {s} : SessionState(o)' = SessionState(o)]_vars

SessionLifecycleSeen ==
    \E s \in Sessions : \E o \in Sessions \ {s} :
        /\ pc[s] = "closed" /\ captures[s] = 0
        /\ pc[o] \in Streaming /\ captures[o] > 0 /\ wire[o] # <<>>

\* C25: frames are never queued: a session holds at most one captured frame
\* that it has not written, the frames on its socket are its own captures,
\* each once and in order, and it starts no capture before the write of the
\* previous frame has returned or failed.
FramesNeverQueued ==
    \A s \in Sessions :
        LET k == Len(Received(s).frames)
        IN  /\ Received(s).ok
            /\ k <= captures[s]
            /\ captures[s] <= k + 1
            /\ \A i \in 1..k :
                  Received(s).frames[i].png_data
                      = Png(Received(s).frames[i].length, i)
            /\ pc[s] \in {"top", "capture", "fail_sleep", "stats", "sleep"}
               => captures[s] = k
            /\ captures[s] = k + 1
               => pc[s] \in {"vtime", "send", "finally", "closed"}

FramesNeverQueuedSeen ==
    \E s \in Sessions :
        /\ pc[s] = "send"
        /\ captures[s] = 2
        /\ Len(Received(s).frames) = 1
        /\ png_data[s] = Png(1, 2)

\* current_time as the completed update_telemetry requests have left it: the
\* value of the request in cur once its write is done, else the value the
\* store had when cur was accepted
LastTelemetryTime ==
    IF IsCommand(cur.msg["command"], "update_telemetry") /\ cmd_pc # "ut_write"
    THEN PyFloat(Get(cur.msg, "current_time", Num(0))).v
    ELSE cur.before.current_time

\* C24: the timestamp of every frame is current_time read after the frame's
\* capture succeeded and before the frame is written; it is the value set by
\* the last update_telemetry completed before the read (0.0 if none), on every
\* frame and not only on every tenth.
StampIsLastTelemetry ==
    [][\A s \in Sessions :
          /\ (pc[s] = "vtime" /\ pc'[s] = "send")
             => /\ png_data[s] # None
                /\ v_time'[s] = LastTelemetryTime
          /\ v_time'[s] # v_time[s] => pc[s] = "vtime"
          /\ (pc[s] = "send" /\ pc'[s] = "stats")
             => wire'[s] = wire[s] \o PackQ(Len(png_data[s]))
                                  \o PackD(v_time[s]) \o png_data[s]]_vars

StampIsLastTelemetrySeen ==
    \E s \in Sessions :
        /\ Len(Received(s).frames) = 2
        /\ f_count[s] = 2
        /\ Received(s).frames[1].timestamp = PackD(Num(0))
        /\ Received(s).frames[2].timestamp = PackD(Num(5))

\* fps is the value a session reports from its window h
Reported(fps, h) == fps.num * (h[Len(h)] - h[1]) = fps.den * (Len(h) - 1)
\* session s completes a frame and reports
Reports(s) == pc[s] = "stats" /\ pc'[s] = "sleep" /\ Len(ts_history'[s]) >= 2

\* C27: with several sessions streaming, the fps that status returns is the
\* value most recently reported by some session, 0.0 before any report; a
\* session reports only when its window holds at least 2 completion times,
\* and the window never holds more than the 30 most recent ones.
LastReportWins ==
    /\ [](\A s \in Sessions : Len(ts_history[s]) <= TS_MAXLEN)
    /\ []((\A s \in Sessions : Len(ts_history[s]) < 2) => current_fps.num = 0)
    /\ [][/\ current_fps' # current_fps
             => \E s \in Sessions : Reports(s)
          /\ \A s \in Sessions :
                /\ Reports(s) => Reported(current_fps', ts_history'[s])
                /\ (pc[s] = "stats" /\ pc'[s] = "sleep")
                   => LET now == Last(ts_history'[s])
                      IN  ts_history'[s] =
                              IF Len(ts_history[s]) = TS_MAXLEN
                              THEN Tail(ts_history[s]) \o <<now>>
                              ELSE ts_history[s] \o <<now>>
          /\ StatusReads => st_stats'.fps = current_fps
          /\ (cmd_pc = "st_reply" /\ cmd_pc' = "accept")
             => cur'.reply.fps = st_stats.fps]_vars

LastReportWinsSeen ==
    /\ Len(ts_history[1]) = TS_MAXLEN
    /\ ts_history[1][1] = 1
    /\ Len(ts_history[2]) = 2
    /\ current_fps = [num |-> 1, den |-> 2]
    /\ StatusAnswered
    /\ cur.reply.fps = current_fps

\* C31: in every reachable state the stored playback status is one of
\* playing, paused, complete, whatever video_status the update_telemetry
\* requests carry.  The value of the request is stored as it comes.
PlaybackStatusInEnum ==
    capture_region.video_status \in {Str("playing"), Str("paused"), Str("complete")}

\* C32: in every reachable state the stored current_time and duration are
\* numbers >= 0, also after set_duration and update_telemetry requests that
\* carry negative values.  float() of a negative number is stored as it is.
TimesNotNegative ==
    /\ IsFinite(capture_region.current_time)
    /\ capture_region.current_time.n >= 0
    /\ IsFinite(capture_region.duration)
    /\ capture_region.duration.n >= 0

\* the positions of command_server inside a block that assigns capture_region
RegionWriters ==
    {"ru_top", "ru_left", "ru_width", "ru_height", "sd_write", "ut_write"}

FpsOutlivesSessions ==
    [][/\ current_fps' # current_fps
         => \E s \in Sessions :
              /\ pc[s] = "stats" /\ pc'[s] = "sleep"
              /\ Last(Received(s).frames).png_data = png_data[s]
              /\ f_count'[s] = f_count[s] + 1
       /\ active_clients' < active_clients => current_fps' = current_fps
       /\ (StatusReads /\ active_clients = 0)
          => st_stats' = [fps |-> current_fps, clients |-> 0]
       /\ (cmd_pc = "st_reply" /\ cmd_pc' = "accept" /\ st_stats.clients = 0)
          => /\ cur'.reply.active_clients = 0
             /\ cur'.reply.fps = st_stats.fps]_vars

FpsOutlivesSessionsSeen ==
    /\ StatusAnswered
    /\ cur.reply.active_clients = 0
    /\ cur.reply.fps = [num |-> 1, den |-> 1]
    /\ \A s \in Sessions : pc[s] = "closed"
    /\ \E s \in Sessions : Len(ts_history[s]) = 2

\* C34: whatever chunks recv() returns, repeated calls of recv_frame return
\* the (payload, timestamp) pairs the session wrote, in the order it wrote
\* them; recv_exact returns exactly the number of bytes asked for, or raises
\* ConnectionError when the server has closed the connection first, and
\* never returns a short read.
RecvFrameRoundTrip ==
    \A s \in Sessions :
        LET c == client[s]
            sent == Received(s).frames
        IN  /\ Len(c.frames) <= Len(sent)
            /\ Len(c.frames) <= captures[s]
            /\ \A i \in 1..Len(c.frames) :
                  /\ c.frames[i].png_data = sent[i].png_data
                  /\ c.frames[i].timestamp = sent[i].timestamp
                  /\ c.frames[i].png_data = Png(Len(c.frames[i].png_data), i)
                  /\ Len(c.frames[i].png_data) \in PngSizes
                  /\ Len(c.frames[i].timestamp) = 8
            /\ (pc[s] = "stats" /\ c.pos = Len(wire[s]))
               => /\ Len(c.frames) = captures[s]
                  /\ Last(c.frames).png_data = png_data[s]
                  /\ Last(c.frames).timestamp = PackD(v_time[s])
            /\ c.pos <= Len(wire[s])
            /\ c.stage = "payload"
               => /\ Len(c.header) = HEADER_SIZE
                  /\ Len(c.chunks) + c.remaining = UnpackQ(SubSeq(c.header, 1, 8))
            /\ c.stage = "header" => Len(c.chunks) + c.remaining = HEADER_SIZE
            /\ c.stage # "error" => c.remaining > 0
            /\ c.stage = "error"
               => /\ pc[s] = "closed"
                  /\ c.pos = Len(wire[s])
                  /\ c.remaining > 0

RecvFrameRoundTripSeen ==
    \E s \in Sessions :
        /\ Len(client[s].frames) = 1
        /\ client[s].frames[1].png_data = Png(1, 1)
        /\ client[s].stage = "payload"
        /\ client[s].header = PackQ(2) \o PackD(v_time[s])
        /\ client[s].chunks = <<Png(2, 2)[1]>>
        /\ client[s].remaining = 1
====
